---- MODULE Spec2Model ----
(***************************************************************************)
(* Model of the SOCKS5 proxy front-end of proxy/server.go: the accept loop *)
(* (ServeTCP), the dispatcher (startHandler), the per-connection session   *)
(* (handleRequest and the functions it calls) and Stop.                    *)
(*                                                                         *)
(* Goroutines are processes with a program counter each.  Channel          *)
(* operations are the only steps that touch shared state, so a session's   *)
(* local statements between two channel operations form one action.        *)
(* A byte string is a sequence of numbers 0..255; a Go string is a         *)
(* sequence of one-character strings.                                      *)
(***************************************************************************)
EXTENDS Naturals, Sequences, FiniteSets

\* Number of client connections that arrive at the listening socket.
NConn == 4

\* The maxConnectionCount the server is built with (New's third argument).
maxConnectionCount == 2

\* Size of the buffer handleConnectRequest reads the connect request into.
ConnectBufLen == 200

Conns == 1..NConn

VARIABLES
    listener,       \* server.listener: "nil", "open", "closed"
    chanClosed,     \* whether server.connectHandler has been closed
    sem,            \* number of values buffered in server.sem
    startPc,        \* Start: "init", "serving", "failed"
    accPc,          \* ServeTCP loop: "init", "accept", "send", "returned"
    accConn,        \* the connection ServeTCP holds (0: none)
    accepted,       \* number of connections accepted so far
    dispPc,         \* startHandler loop: "init", "recv", "acquire", "exited"
    dispConn,       \* the connection startHandler holds (0: none)
    stopPc,         \* Stop: "idle", "closedChan", "done"
    panicked,       \* an unrecovered panic has ended the process
    sess,           \* per connection: the handler.Request and its goroutine
    inflightAtStop, \* history: the Sessions that were running when Stop returned
    load            \* the clients of this run: "many" or "one" (see Arrivals)

vars == <<listener, chanClosed, sem, startPc, accPc, accConn, accepted,
          dispPc, dispConn, stopPc, panicked, sess, inflightAtStop, load>>

----------------------------------------------------------------------------
(* Byte strings and Go strings *)

Digit(n) == <<"0", "1", "2", "3", "4", "5", "6", "7", "8", "9">>[n + 1]

RECURSIVE Dec(_)
\* fmt's %d of a non-negative integer
Dec(n) == IF n < 10 THEN <<Digit(n)>> ELSE Dec(n \div 10) \o <<Digit(n % 10)>>

\* Read into a zeroed buffer of the given size: the buffer after the read.
ReadInto(size, raw) ==
    [i \in 1..size |-> IF i <= Len(raw) THEN raw[i] ELSE 0]

\* One entry of a Session's history of operations on its connections.
\* data is a byte string, text a Go string.
Ev(op, ok, net, data, text, port) ==
    [op |-> op, ok |-> ok, net |-> net, data |-> data, text |-> text,
     port |-> port]

----------------------------------------------------------------------------
(* handler.Request *)

NoRequest ==
    [pc |-> "unborn", state |-> "NONE", clientOpen |-> FALSE,
     outboundIP |-> <<>>, outboundPort |-> 0, outboundConn |-> "none",
     trace |-> <<>>, acq |-> 0, rel |-> 0, rank |-> 0]

\* handler.NewRequest(conn) at the top of handleRequest; acq counts the
\* sends on sem the dispatcher made for this Session, rank is its place in
\* the order of those sends (set by Admit).
NewRequest ==
    [NoRequest EXCEPT !.pc = "handleInitial", !.state = "NEW",
                      !.clientOpen = TRUE, !.acq = 1]

Log(r, e) == [r EXCEPT !.trace = Append(@, e)]

SetState(r, st) == [r EXCEPT !.state = st]

\* request.Write / conn.Write: the code ignores the result.
Write(r, bytes) == Log(r, Ev("write", TRUE, "", bytes, <<>>, 0))

\* request.Close, deferred in handleRequest: closes the client connection
\* and the outbound connection if there is one.
Close(r) ==
    [r EXCEPT !.clientOpen = FALSE,
              !.outboundConn = IF @ = "open" THEN "closed" ELSE @]

\* The byte strings the Session wrote to the client, in order.
RECURSIVE WritesOf(_)
WritesOf(tr) ==
    IF tr = <<>> THEN <<>>
    ELSE IF Head(tr).op = "write" THEN <<Head(tr).data>> \o WritesOf(Tail(tr))
    ELSE WritesOf(Tail(tr))

Writes(s) == WritesOf(sess[s].trace)

----------------------------------------------------------------------------
(* Inputs: what clients send and what the network answers *)

\* Greetings (VER, NMETHODS, METHODS): SOCKS5 and a SOCKS4-style version byte.
Greetings == { <<5, 1, 0>>, <<4, 1, 0>> }

\* 127.0.0.1, port 8080
ReqIPv4 == <<5, 1, 0, 1, 127, 0, 0, 1, 31, 144>>

\* 10.20.30.40, port 22
ReqIPv4Other == <<5, 1, 0, 1, 10, 20, 30, 40, 0, 22>>

ReqDomain == <<5, 1, 0, 3, 3, 97, 46, 98, 1, 187>>

ReqIPv6 ==
    <<5, 1, 0, 4, 32, 1, 13, 184, 1, 2, 3, 4, 5, 6, 7, 8, 9, 10, 11, 12, 0, 80>>

\* ATYP 0x02 is not an address type of SOCKS5.
ReqUnsupported == <<5, 1, 0, 2, 9, 9, 0, 80>>

\* A domain name whose length byte runs past the end of the read buffer.
ReqOversize == <<5, 1, 0, 3, 250, 97>>

\* The clients of a run.  "many": NConn clients that either go away before
\* their greeting or speak SOCKS5 and ask for an IPv4 destination that is
\* reached and relayed without an error.  "one": a single client that may
\* send any greeting and any request, with any read, lookup, dial or relay
\* failing.
Arrivals == IF load = "one" THEN 1 ELSE NConn

ClientGreetings == IF load = "one" THEN Greetings ELSE { <<5, 1, 0>> }

ConnectRequests ==
    IF load = "one"
    THEN {ReqIPv4, ReqIPv4Other, ReqDomain, ReqIPv6, ReqUnsupported,
          ReqOversize}
    ELSE {ReqIPv4}

\* Whether the operations after the greeting succeed.
Outcomes == IF load = "one" THEN BOOLEAN ELSE {TRUE}

\* addr[0] of a successful net.LookupHost.
LookupResult == <<"1", "0", ".", "0", ".", "0", ".", "9">>

----------------------------------------------------------------------------
(* Connect request parser *)

\* GetSocketRequestDeserialized: VER CMD RSV ATYP DSTADDR DSTPORT.
GetSocketRequestDeserialized(data) ==
    LET atype == data[4]
        n     == data[5]
    IN  IF atype = 1 THEN
            [err |-> FALSE, atype |-> atype, destaddr |-> SubSeq(data, 5, 8),
             destport |-> data[9] * 256 + data[10]]
        ELSE IF atype = 3 THEN
            IF 5 + n + 2 > Len(data) THEN
                [err |-> TRUE, atype |-> atype, destaddr |-> <<>>, destport |-> 0]
            ELSE
                [err |-> FALSE, atype |-> atype,
                 destaddr |-> SubSeq(data, 6, 5 + n),
                 destport |-> data[6 + n] * 256 + data[7 + n]]
        ELSE IF atype = 4 THEN
            [err |-> FALSE, atype |-> atype, destaddr |-> SubSeq(data, 5, 20),
             destport |-> data[21] * 256 + data[22]]
        ELSE
            [err |-> FALSE, atype |-> atype, destaddr |-> <<>>, destport |-> 0]

----------------------------------------------------------------------------
(* Address formatting *)

\* The four bytes printed last to first.
DottedDecimalReversed(b) ==
    Dec(b[4]) \o <<".">> \o Dec(b[3]) \o <<".">> \o Dec(b[2]) \o <<".">> \o Dec(b[1])

\* fmt.Sprintf("%d.%d.%d.%d", b[0], b[1], b[2], b[3])
DottedDecimal(b) ==
    Dec(b[1]) \o <<".">> \o Dec(b[2]) \o <<".">> \o Dec(b[3]) \o <<".">> \o Dec(b[4])

HexDigit(n) ==
    <<"0", "1", "2", "3", "4", "5", "6", "7", "8", "9",
      "a", "b", "c", "d", "e", "f">>[n + 1]

RECURSIVE Hex(_)
Hex(n) == IF n < 16 THEN <<HexDigit(n)>> ELSE Hex(n \div 16) \o <<HexDigit(n % 16)>>

RECURSIVE HexGroups(_, _)
HexGroups(b, i) ==
    Hex(b[2 * i - 1] * 256 + b[2 * i])
        \o (IF i = 8 THEN <<>> ELSE <<":">> \o HexGroups(b, i + 1))

\* net.IP(b).String() for a 16-byte address without a run of zero groups
\* (the library shortens such a run to "::").
IPString(b) == HexGroups(b, 1)

\* fmt.Sprintf("%s:%d", host, port)
HostPort(host, port) == host \o <<":">> \o Dec(port)

\* fmt.Sprintf("[%s]:%d", host, port)
BracketHostPort(host, port) == <<"[">> \o host \o <<"]", ":">> \o Dec(port)

----------------------------------------------------------------------------
(* Replies *)

\* A method selection that refuses every method.
MethodReplyRefuse == <<5, 255>>

\* The accept written after handleInitial.
MethodReply == <<5, 0>>

\* The errorStream of sendSocksError.
SocksErrorStream == <<5, 1>>

\* The errorStream of sendSocksConnectError.
ConnectErrorStream(status, destaddr) == <<5, status, 0>> \o destaddr \o <<1, 187>>

\* The resp of handleConnectRequest.
SuccessResp(atype, dest) == <<5, 0, 0, atype>> \o dest \o <<0, 80>>

sendSocksError(r) == Write(SetState(r, "ERROR"), SocksErrorStream)

sendSocksConnectError(r, status, req) ==
    Write(SetState(r, "ERROR"), ConnectErrorStream(status, req.destaddr))

----------------------------------------------------------------------------
(* The Session's stages, as functions of the request and of the outcomes *)
(* of the reads, the lookup and the dial                                 *)

\* A handleInitial that returns an error on a version other than 5.
handleInitialStrict(r, readOk, greeting) ==
    IF ~readOk \/ greeting[1] # 5 THEN
        [err |-> TRUE,
         r   |-> Log(r, Ev("readGreeting", readOk, "",
                          IF readOk THEN greeting ELSE <<>>, <<>>, 0))]
    ELSE
        [err |-> FALSE,
         r   |-> SetState(Log(r, Ev("readGreeting", TRUE, "", greeting, <<>>, 0)),
                          "INITIALIZING")]

handleInitial(r, readOk, greeting) ==
    IF ~readOk THEN
        [err |-> TRUE, r |-> Log(r, Ev("readGreeting", FALSE, "", <<>>, <<>>, 0))]
    ELSE
        [err |-> FALSE,
         r   |-> SetState(Log(r, Ev("readGreeting", TRUE, "", greeting, <<>>, 0)),
                          "INITIALIZING")]

\* net.Dial(net, target): the attempt, and the connection when it succeeds.
Dial(r, ok, net, target, port) ==
    LET r1 == Log(r, Ev("dial", ok, net, <<>>, target, port))
    IN  IF ok THEN [r1 EXCEPT !.outboundConn = "open"] ELSE r1

\* The tail of handleConnectRequest, after a successful dial.  writeOk is
\* whether request.Write(resp) succeeds; the code does not look at it.
SendSuccess(r, connect, writeOk) ==
    Log([r EXCEPT !.outboundPort = connect.destport],
        Ev("write", writeOk, "",
           SuccessResp(connect.atype, connect.destaddr), <<>>, 0))

DialIPv4(r, connect, dialOk, writeOk) ==
    LET ip == DottedDecimal(connect.destaddr)
        r1 == [r EXCEPT !.outboundIP = ip]
        r2 == Dial(r1, dialOk, "tcp", HostPort(ip, connect.destport),
                   connect.destport)
    IN  IF ~dialOk THEN [err |-> TRUE, r |-> r2]
        ELSE [err |-> FALSE, r |-> SendSuccess(r2, connect, writeOk)]

\* The dial made without looking at the error of the lookup.
DialDomainUnchecked(r, connect, resolveOk, dialOk, writeOk) ==
    LET r1 == Log(r, Ev("lookup", resolveOk, "", connect.destaddr, <<>>, 0))
        r2 == Dial(r1, dialOk, "tcp",
                   HostPort(LookupResult, connect.destport), connect.destport)
    IN  IF ~dialOk THEN [err |-> TRUE, r |-> r2]
        ELSE [err |-> FALSE, r |-> SendSuccess(r2, connect, writeOk)]

DialDomain(r, connect, resolveOk, dialOk, writeOk) ==
    LET r1 == Log(r, Ev("lookup", resolveOk, "", connect.destaddr, <<>>, 0))
        r2 == Dial(r1, dialOk, "tcp",
                   HostPort(LookupResult, connect.destport), connect.destport)
    IN  IF ~resolveOk THEN [err |-> TRUE, r |-> r1]
        ELSE IF ~dialOk THEN [err |-> TRUE, r |-> r2]
        ELSE [err |-> FALSE, r |-> SendSuccess(r2, connect, writeOk)]

DialIPv6(r, connect, dialOk, writeOk) ==
    LET ipAddr == IPString(connect.destaddr)
        r1 == [r EXCEPT !.outboundIP = ipAddr]
        r2 == Dial(r1, dialOk, "tcp6",
                   BracketHostPort(ipAddr, connect.destport), connect.destport)
    IN  IF ~dialOk THEN [err |-> TRUE, r |-> r2]
        ELSE [err |-> FALSE, r |-> SendSuccess(r2, connect, writeOk)]

\* The unsupported type reported without a reply.
UnsupportedNoReply(r, connect) == [err |-> TRUE, r |-> r]

Unsupported(r, connect) ==
    [err |-> TRUE, r |-> sendSocksConnectError(r, 8, connect)]

handleConnectRequest(r, readOk, raw, resolveOk, dialOk, writeOk) ==
    LET r0      == Log(r, Ev("readConnect", readOk, "",
                             IF readOk THEN raw ELSE <<>>, <<>>, 0))
        connect == GetSocketRequestDeserialized(ReadInto(ConnectBufLen, raw))
        r1      == Log(r0, Ev("parse", ~connect.err, "",
                              <<connect.atype>> \o connect.destaddr, <<>>,
                              connect.destport))
    IN  IF ~readOk THEN [err |-> TRUE, r |-> r0]
        ELSE IF connect.err THEN [err |-> TRUE, r |-> r1]
        ELSE IF connect.atype = 1 THEN DialIPv4(r1, connect, dialOk, writeOk)
        ELSE IF connect.atype = 3 THEN DialDomain(r1, connect, resolveOk, dialOk,
                                                   writeOk)
        ELSE IF connect.atype = 4 THEN DialIPv6(r1, connect, dialOk, writeOk)
        ELSE Unsupported(r1, connect)

----------------------------------------------------------------------------
(* Initial state: the server New returns; no connection has arrived *)

Constructed ==
    /\ listener = "nil"
    /\ chanClosed = FALSE
    /\ sem = 0
    /\ startPc = "init"
    /\ accPc = "init"
    /\ accConn = 0
    /\ accepted = 0
    /\ dispPc = "init"
    /\ dispConn = 0
    /\ stopPc = "idle"
    /\ panicked = FALSE
    /\ sess = [s \in Conns |-> NoRequest]
    /\ inflightAtStop = {}

Init == Constructed /\ load = "many"

InitOne == Constructed /\ load = "one"

\* The Sessions whose goroutine is running.
Running == {s \in Conns : sess[s].pc \notin {"unborn", "done"}}

\* The Sessions that hold an admission slot.
Holders == {s \in Conns : sess[s].acq > sess[s].rel}

----------------------------------------------------------------------------
(* Start and ServeTCP *)

\* Start: net.Listen, then ServeTCP, which starts startHandler and enters
\* the accept loop.  A failed Listen returns the error.
Start ==
    /\ ~panicked
    /\ startPc = "init"
    /\ \E ok \in BOOLEAN :
         IF ok
         THEN /\ listener' = "open"
              /\ startPc' = "serving"
              /\ accPc' = "accept"
              /\ dispPc' = "recv"
         ELSE /\ startPc' = "failed"
              /\ UNCHANGED <<listener, accPc, dispPc>>
    /\ UNCHANGED <<chanClosed, sem, accConn, accepted, dispConn, stopPc,
                   panicked, sess, inflightAtStop, load>>

\* listener.Accept returns the next client connection; the loop sets its
\* deadlines and goes on to the send on connectHandler.
Accept ==
    /\ ~panicked
    /\ accPc = "accept"
    /\ listener = "open"
    /\ accepted < Arrivals
    /\ accepted' = accepted + 1
    /\ accConn' = accepted + 1
    /\ accPc' = "send"
    /\ UNCHANGED <<listener, chanClosed, sem, startPc, dispPc, dispConn,
                   stopPc, panicked, sess, inflightAtStop, load>>

\* Whether an Accept on the listener fails.
AcceptFails(l) == l = "closed"

\* listener.Accept fails on the closed listener: ServeTCP returns the error.
AcceptError ==
    /\ ~panicked
    /\ accPc = "accept"
    /\ AcceptFails(listener)
    /\ accPc' = "returned"
    /\ UNCHANGED <<listener, chanClosed, sem, startPc, accConn, accepted,
                   dispPc, dispConn, stopPc, panicked, sess, inflightAtStop, load>>

\* A connectHandler with a buffer: the send does not wait for the receive.
HandoffBuffered ==
    /\ ~panicked
    /\ accPc = "send"
    /\ ~chanClosed
    /\ accConn' = 0
    /\ accPc' = "accept"
    /\ IF dispPc = "recv"
       THEN dispConn' = accConn /\ dispPc' = "acquire"
       ELSE UNCHANGED <<dispConn, dispPc>>
    /\ UNCHANGED <<listener, chanClosed, sem, startPc, accepted, stopPc,
                   panicked, sess, inflightAtStop, load>>

\* server.connectHandler <- conn meets conn, more := <-server.connectHandler:
\* the channel has no buffer, so the send and the receive are one step.
Handoff ==
    /\ ~panicked
    /\ accPc = "send"
    /\ dispPc = "recv"
    /\ ~chanClosed
    /\ dispConn' = accConn
    /\ accConn' = 0
    /\ accPc' = "accept"
    /\ dispPc' = "acquire"
    /\ UNCHANGED <<listener, chanClosed, sem, startPc, accepted, stopPc,
                   panicked, sess, inflightAtStop, load>>

\* server.connectHandler <- conn on the closed channel panics, in the
\* goroutine that called Start; nothing recovers it.
SendOnClosed ==
    /\ ~panicked
    /\ accPc = "send"
    /\ chanClosed
    /\ panicked' = TRUE
    /\ UNCHANGED <<listener, chanClosed, sem, startPc, accPc, accConn,
                   accepted, dispPc, dispConn, stopPc, sess, inflightAtStop, load>>

----------------------------------------------------------------------------
(* startHandler *)

\* A receive that never reports the close.
NoMoreIgnored(closed) == FALSE

\* Whether a receive on connectHandler reports more = false.
NoMore(closed) == closed

\* The receive on the closed channel: more is false and startHandler returns.
DispatcherExit ==
    /\ ~panicked
    /\ dispPc = "recv"
    /\ NoMore(chanClosed)
    /\ dispPc' = "exited"
    /\ UNCHANGED <<listener, chanClosed, sem, startPc, accPc, accConn,
                   accepted, dispConn, stopPc, panicked, sess, inflightAtStop, load>>

\* A sem whose sends never block.
SemHasRoomUnbounded(n) == n >= 0

\* A sem with room for one value more than maxConnectionCount.
SemHasRoomOffByOne(n) == n <= maxConnectionCount

\* Whether a send on sem, holding n values, can proceed: sem was made with
\* room for maxConnectionCount values.
SemHasRoom(n) == n < maxConnectionCount

\* The number of Sessions started so far.
Started == Cardinality({c \in Conns : sess[c].pc # "unborn"})

\* A dispatcher that gives up the connection it holds when sem is full
\* (a select with a default case) instead of waiting.
AdmitOrDrop ==
    /\ ~panicked
    /\ dispPc = "acquire"
    /\ IF sem < maxConnectionCount
       THEN /\ sem' = sem + 1
            /\ sess' = [sess EXCEPT ![dispConn] =
                          [NewRequest EXCEPT !.rank = Started + 1]]
       ELSE UNCHANGED <<sem, sess>>
    /\ dispConn' = 0
    /\ dispPc' = "recv"
    /\ UNCHANGED <<listener, chanClosed, startPc, accPc, accConn, accepted,
                   stopPc, panicked, inflightAtStop, load>>

\* server.sem <- true, then go server.handleRequest(conn, server.sem).
Admit ==
    /\ ~panicked
    /\ dispPc = "acquire"
    /\ SemHasRoom(sem)
    /\ sem' = sem + 1
    /\ sess' = [sess EXCEPT ![dispConn] =
                  [NewRequest EXCEPT !.rank = Started + 1]]
    /\ dispConn' = 0
    /\ dispPc' = "recv"
    /\ UNCHANGED <<listener, chanClosed, startPc, accPc, accConn, accepted,
                   stopPc, panicked, inflightAtStop, load>>

----------------------------------------------------------------------------
(* handleRequest *)

\* What is left unchanged by a step of a Session that keeps its slot.
SessionFrame ==
    UNCHANGED <<listener, chanClosed, sem, startPc, accPc, accConn, accepted,
                dispPc, dispConn, stopPc, panicked, inflightAtStop, load>>

\* The request left without the deferred request.Close().
ReleasedNoClose(r) == [r EXCEPT !.rel = @ + 1, !.pc = "done"]

\* The request as handleRequest leaves it: <-sem, return nil, and the
\* deferred request.Close().  rel counts the receives from sem.
Released(r) == Close([r EXCEPT !.rel = @ + 1, !.pc = "done"])

\* return nil without the receive from sem
ExitNoReceive(s, r) ==
    /\ sess' = [sess EXCEPT ![s] = Close([r EXCEPT !.pc = "done"])]
    /\ SessionFrame

\* <-sem; return nil
Exit(s, r) ==
    /\ sem > 0
    /\ sem' = sem - 1
    /\ sess' = [sess EXCEPT ![s] = Released(r)]
    /\ UNCHANGED <<listener, chanClosed, startPc, accPc, accConn, accepted,
                   dispPc, dispConn, stopPc, panicked, inflightAtStop, load>>

\* handleInitial; on an error sendSocksError and out, otherwise the accept.
Greeting(s) ==
    /\ ~panicked
    /\ sess[s].pc = "handleInitial"
    /\ \E readOk \in BOOLEAN, greeting \in ClientGreetings :
         LET h == handleInitial(sess[s], readOk, greeting)
         IN  IF h.err
             THEN Exit(s, sendSocksError(h.r))
             ELSE /\ sess' = [sess EXCEPT ![s] =
                       [Write(h.r, MethodReply) EXCEPT
                           !.pc = "handleConnectRequest"]]
                  /\ SessionFrame

\* handleConnectRequest; on an error sendSocksError and out.
Connect(s) ==
    /\ ~panicked
    /\ sess[s].pc = "handleConnectRequest"
    /\ \E readOk \in Outcomes, raw \in ConnectRequests,
          resolveOk \in Outcomes, dialOk \in Outcomes, writeOk \in Outcomes :
         LET h == handleConnectRequest(sess[s], readOk, raw, resolveOk,
                                       dialOk, writeOk)
         IN  IF h.err
             THEN Exit(s, sendSocksError(h.r))
             ELSE /\ sess' = [sess EXCEPT ![s] =
                       [h.r EXCEPT !.pc = "outboundHandler"]]
                  /\ SessionFrame

\* outboundHandler.HandleRequest takes the Session over: it is CONNECTED
\* and the relay pumps bytes.
RelayStart(s) ==
    /\ ~panicked
    /\ sess[s].pc = "outboundHandler"
    /\ sess' = [sess EXCEPT ![s] =
          [Log(SetState(@, "CONNECTED"), Ev("relay", TRUE, "", <<>>, <<>>, 0))
             EXCEPT !.pc = "relaying"]]
    /\ SessionFrame

\* What handleRequest does with the error of outboundHandler.HandleRequest.
AfterRelay(r, err) == IF err THEN sendSocksError(r) ELSE r

\* outboundHandler.HandleRequest returns, with an error or without.
RelayEnd(s) ==
    /\ ~panicked
    /\ sess[s].pc = "relaying"
    /\ \E ok \in Outcomes : Exit(s, AfterRelay(sess[s], ~ok))

----------------------------------------------------------------------------
(* Stop, called once on a started server *)

\* close(server.connectHandler)
StopCloseChannel ==
    /\ ~panicked
    /\ startPc = "serving"
    /\ stopPc = "idle"
    /\ chanClosed' = TRUE
    /\ stopPc' = "closedChan"
    /\ UNCHANGED <<listener, sem, startPc, accPc, accConn, accepted, dispPc,
                   dispConn, panicked, sess, inflightAtStop, load>>

\* A Stop that also closes the connections of the running Sessions.
StopCloseListenerAndSessions ==
    /\ ~panicked
    /\ stopPc = "closedChan"
    /\ listener' = "closed"
    /\ stopPc' = "done"
    /\ inflightAtStop' = Running
    /\ sess' = [s \in Conns |->
                  IF s \in Running THEN Close(sess[s]) ELSE sess[s]]
    /\ UNCHANGED <<chanClosed, sem, startPc, accPc, accConn, accepted, dispPc,
                   dispConn, panicked, load>>

\* server.listener.Close(), and Stop returns.
StopCloseListener ==
    /\ ~panicked
    /\ stopPc = "closedChan"
    /\ listener' = "closed"
    /\ stopPc' = "done"
    /\ inflightAtStop' = Running
    /\ UNCHANGED <<chanClosed, sem, startPc, accPc, accConn, accepted, dispPc,
                   dispConn, panicked, sess, load>>

----------------------------------------------------------------------------

Next ==
    \/ Start
    \/ Accept
    \/ AcceptError
    \/ Handoff
    \/ SendOnClosed
    \/ DispatcherExit
    \/ Admit
    \/ \E s \in Conns : Greeting(s)
    \/ \E s \in Conns : Connect(s)
    \/ \E s \in Conns : RelayStart(s)
    \/ \E s \in Conns : RelayEnd(s)
    \/ StopCloseChannel
    \/ StopCloseListener

Spec == Init /\ [][Next]_vars

SpecOne == InitOne /\ [][Next]_vars

\* The server on which Stop is never called.
NextNoStop ==
    \/ Start
    \/ Accept
    \/ Handoff
    \/ Admit
    \/ \E s \in Conns : Greeting(s)
    \/ \E s \in Conns : Connect(s)
    \/ \E s \in Conns : RelayStart(s)
    \/ \E s \in Conns : RelayEnd(s)

\* A step of the Dispatcher or of a Session.
Progress ==
    \/ Handoff
    \/ Admit
    \/ \E s \in Conns : Greeting(s) \/ Connect(s) \/ RelayStart(s) \/ RelayEnd(s)

\* The scheduler does not stop while the Dispatcher or a Session can take a
\* step: a handoff or an admission that can happen does, and no stage of a
\* Session, the relay included, lasts forever.  (This is less than fairness
\* to each goroutine, which the Go scheduler gives.)
Fairness == WF_vars(Progress)

SpecLive == Init /\ [][NextNoStop]_vars /\ Fairness

----------------------------------------------------------------------------
(* Reading a Session's history *)

Trace(s) == sess[s].trace

Has(s, op) == \E i \in DOMAIN Trace(s) : Trace(s)[i].op = op

HasFailed(s, op) ==
    \E i \in DOMAIN Trace(s) : Trace(s)[i].op = op /\ ~Trace(s)[i].ok

\* The Session parsed a connect request with this address type.
Parsed(s, atype) ==
    \E i \in DOMAIN Trace(s) :
        /\ Trace(s)[i].op = "parse"
        /\ Trace(s)[i].ok
        /\ Trace(s)[i].data[1] = atype

IsSuccessReply(b) == Len(b) >= 4 /\ b[1] = 5 /\ b[2] = 0 /\ b[3] = 0

IsGreetingError(b) == b = <<5, 1>>

IsConnectError(b) ==
    /\ Len(b) >= 5
    /\ b[1] = 5 /\ b[2] # 0 /\ b[3] = 0
    /\ b[Len(b) - 1] = 1 /\ b[Len(b)] = 187

IsErrorReply(b) == IsGreetingError(b) \/ IsConnectError(b)

\* What the Session wrote after the method-selection reply (all it wrote,
\* when the greeting failed).
Replies(s) ==
    IF HasFailed(s, "readGreeting") \/ Writes(s) = <<>>
    THEN Writes(s)
    ELSE Tail(Writes(s))

----------------------------------------------------------------------------
(* Claims *)

\* C1: at any instant the number of Sessions that have acquired an
\* admission slot and not yet released it is at most maxConnectionCount,
\* however many connections are attempted.
C1_AdmissionBound == Cardinality(Holders) <= maxConnectionCount

\* All slots are held while further connections wait at the handoff.
C1_Saturated ==
    /\ Cardinality(Holders) = maxConnectionCount
    /\ dispPc = "acquire"
    /\ accPc = "send"

\* C2: every run of handleRequest releases exactly one slot exactly once on
\* every exit path, matching the one acquisition made for it; the number of
\* values in sem is the number of acquisitions minus the number of releases.
C2_SlotBalance ==
    /\ sem = Cardinality(Holders)
    /\ \A s \in Conns :
         /\ sess[s].rel <= sess[s].acq
         /\ sess[s].pc = "unborn" => sess[s].acq = 0
         /\ sess[s].pc \in {"handleInitial", "handleConnectRequest",
                            "outboundHandler", "relaying"}
               => sess[s].acq = 1 /\ sess[s].rel = 0
         /\ sess[s].pc = "done" => sess[s].acq = 1 /\ sess[s].rel = 1

\* A Session that ended on the failure of the relay has released its slot.
C2_ReleasedAfterRelayFailure ==
    \E s \in Conns :
        /\ sess[s].pc = "done"
        /\ Has(s, "relay")
        /\ sess[s].state = "ERROR"
        /\ sess[s].rel = 1
        /\ sem = 0

\* C3: after the method-selection reply a Session writes either exactly one
\* success reply, or exactly one error reply of one of the two error
\* shapes: never two replies, never an error reply after a success reply.
C3_OneReply ==
    \A s \in Conns :
        /\ Len(Replies(s)) <= 1
        /\ \A i \in DOMAIN Replies(s) :
              IsSuccessReply(Replies(s)[i]) \/ IsErrorReply(Replies(s)[i])
        /\ sess[s].pc = "done" => Len(Replies(s)) = 1

\* C4: for a parsed connect request whose address type is none of 0x01,
\* 0x03, 0x04 no dial is attempted, the reply written next is the
\* connect-error reply with status 0x08 and the request's address bytes, and
\* the failure is reported: the Session goes no further than the error
\* branch of handleRequest.
C4_UnsupportedAddressType ==
    \A s \in Conns : \A i \in DOMAIN Trace(s) :
        (/\ Trace(s)[i].op = "parse"
         /\ Trace(s)[i].ok
         /\ Trace(s)[i].data[1] \notin {1, 3, 4})
        => /\ ~Has(s, "dial")
           /\ ~Has(s, "lookup")
           /\ Len(Trace(s)) > i
           /\ Trace(s)[i + 1].op = "write"
           /\ Trace(s)[i + 1].data =
                 <<5, 8, 0>> \o Tail(Trace(s)[i].data) \o <<1, 187>>
           /\ ~Has(s, "relay")
           /\ sess[s].state = "ERROR"
           /\ sess[s].outboundConn = "none"
           /\ sess[s].pc = "done"

\* A Session that parsed a request with address type 0x02 has ended.
C4_UnsupportedSeen ==
    \E s \in Conns : Parsed(s, 2) /\ sess[s].pc = "done"

\* C5: when the lookup fails, the dial fails or the connect request is
\* malformed, the reply the Session ends on is a connect-error reply,
\* 0x05 STATUS 0x00 DSTADDR 0x01 0xBB.
C5_ConnectErrorReply ==
    \A s \in Conns :
        (/\ sess[s].pc = "done"
         /\ \/ HasFailed(s, "lookup")
            \/ HasFailed(s, "dial")
            \/ HasFailed(s, "parse"))
        => /\ Writes(s) # <<>>
           /\ IsConnectError(Writes(s)[Len(Writes(s))])

\* C6: for a domain-name request the lookup comes before any dial, and
\* when the lookup fails no dial is attempted.
C6_ResolveBeforeDial ==
    \A s \in Conns :
        Parsed(s, 3) =>
            /\ Has(s, "lookup")
            /\ \A j \in DOMAIN Trace(s) :
                  Trace(s)[j].op = "dial" =>
                      \E k \in 1..(j - 1) :
                          Trace(s)[k].op = "lookup" /\ Trace(s)[k].ok
            /\ HasFailed(s, "lookup") => ~Has(s, "dial")

\* A Session whose lookup failed has ended.
C6_LookupFailed ==
    \E s \in Conns :
        Parsed(s, 3) /\ HasFailed(s, "lookup") /\ sess[s].pc = "done"

\* C7: in a Session whose greeting read succeeds the method-selection reply
\* is the two bytes 0x05 0x00 and is written before the connect request is
\* read; a Session whose greeting read failed reads no connect request.
C7_MethodReplyFirst ==
    \A s \in Conns :
        /\ (Has(s, "readGreeting") /\ ~HasFailed(s, "readGreeting"))
              => /\ Len(Trace(s)) >= 2
                 /\ Trace(s)[2].op = "write"
                 /\ Trace(s)[2].data = <<5, 0>>
        /\ \A j \in DOMAIN Trace(s) :
              Trace(s)[j].op = "readConnect" =>
                  /\ j > 2
                  /\ Trace(s)[1].op = "readGreeting" /\ Trace(s)[1].ok
                  /\ \A k \in 1..(j - 1) : Trace(s)[k].op # "readConnect"
        /\ HasFailed(s, "readGreeting") => ~Has(s, "readConnect")

\* A Session has read a connect request after a greeting of version 4.
C7_ConnectRead ==
    \E s \in Conns :
        /\ Has(s, "readConnect")
        /\ Trace(s)[1].data[1] = 4

\* C8, as claimed: once Stop has returned, the accept loop is at its end or
\* about to fail, and the Dispatcher loop has exited or is about to,
\* without waiting for a Session to finish.
C8_ExitWithoutWaiting ==
    (stopPc = "done" /\ ~panicked) =>
        /\ accPc = "accept" => ENABLED AcceptError
        /\ dispPc = "recv" => ENABLED DispatcherExit
        /\ dispPc = "acquire" => ENABLED Admit

\* C8, amended: once Stop has returned an accept attempt can only fail and
\* return, and a receive of the Dispatcher on the closed handoff queue can
\* only end its loop, whatever Sessions are running; a Dispatcher that holds
\* a received connection sends on sem for it and starts its Session before
\* it receives again, so with every slot held it waits for a release.
C8_StopEndsLoops ==
    /\ []((stopPc = "done" /\ ~panicked) =>
            /\ accPc = "accept" => ENABLED AcceptError
            /\ dispPc = "recv" => ENABLED DispatcherExit
            /\ dispPc = "acquire" => (ENABLED Admit <=> sem < maxConnectionCount))
    /\ [][ /\ (stopPc = "done" /\ accPc = "accept" /\ accPc' # accPc)
                => accPc' = "returned"
           /\ (chanClosed /\ dispPc = "recv" /\ dispPc' # dispPc)
                => dispPc' = "exited" /\ sess' = sess /\ sem' = sem
           /\ (chanClosed /\ dispPc = "acquire" /\ dispPc' # dispPc)
                => /\ dispPc' = "recv"
                   /\ sem' = sem + 1
                   /\ sess'[dispConn].pc = "handleInitial" ]_vars

\* Both loops have ended while Sessions are still running.
C8_LoopsEndedSessionsRunning ==
    /\ stopPc = "done"
    /\ accPc = "returned"
    /\ dispPc = "exited"
    /\ Running # {}

\* C9: Stop changes no Session (connections, protocol state, history) and
\* not the number of held slots.
C9_StopFrame ==
    [][stopPc' # stopPc => (sess' = sess /\ sem' = sem)]_vars

\* A Session that was running when Stop returned has since completed and
\* released its slot.
C9_CompletedAfterStop ==
    \E s \in inflightAtStop :
        /\ sess[s].pc = "done"
        /\ sess[s].rel = 1
        /\ sess[s].state = "CONNECTED"

\* C10: once a Session is in ERROR or CONNECTED its state never changes,
\* and the states follow NEW -> INITIALIZING -> (CONNECTED | ERROR), with
\* ERROR reachable from any state before it.
C10_TerminalStates ==
    [][\A s \in Conns :
          /\ sess[s].state \in {"ERROR", "CONNECTED"}
                => sess'[s].state = sess[s].state
          /\ sess'[s].state # sess[s].state =>
                <<sess[s].state, sess'[s].state>> \in
                    { <<"NONE", "NEW">>, <<"NEW", "INITIALIZING">>,
                      <<"NEW", "ERROR">>, <<"INITIALIZING", "ERROR">>,
                      <<"INITIALIZING", "CONNECTED">> }]_vars

\* C11: every Session run closes its client connection, and its outbound
\* connection once dialed, on every exit path: no terminated Session leaves
\* a connection open, and no running Session has lost its client connection.
C11_ClosedOnExit ==
    \A s \in Conns :
        /\ sess[s].pc = "done"
              => /\ ~sess[s].clientOpen
                 /\ sess[s].outboundConn # "open"
                 /\ (\E i \in DOMAIN Trace(s) :
                        Trace(s)[i].op = "dial" /\ Trace(s)[i].ok)
                       => sess[s].outboundConn = "closed"
        /\ sess[s].pc \in {"handleInitial", "handleConnectRequest",
                           "outboundHandler", "relaying"}
              => sess[s].clientOpen

\* A Session that dialed its destination has ended with both connections
\* closed.
C11_BothClosed ==
    \E s \in Conns :
        /\ sess[s].pc = "done"
        /\ sess[s].outboundConn = "closed"
        /\ ~sess[s].clientOpen

\* C12: connections are admitted in the order in which they were accepted
\* (a connection's number is its place in the order of acceptance): the
\* k-th Session started is that of the k-th connection accepted, and no
\* Session is started while an earlier connection still waits.
C12_AdmissionOrder ==
    \A s \in Conns :
        sess[s].pc # "unborn" =>
            /\ sess[s].rank = s
            /\ s <= accepted
            /\ \A c \in 1..(s - 1) : sess[c].pc # "unborn"

\* The order of completion is free: a Session admitted later has ended
\* while one admitted before it still runs.
C12_LaterEndedFirst ==
    \E a, b \in Conns :
        /\ a < b
        /\ sess[b].pc = "done"
        /\ sess[a].pc \in {"handleInitial", "handleConnectRequest",
                           "outboundHandler", "relaying"}

\* C13: while all maxConnectionCount slots are held and the Dispatcher waits
\* for one, the Dispatcher receives no connection, the Acceptor's send stays
\* blocked, and an Acceptor blocked on that send accepts no further socket;
\* this lasts until a slot is released.
C13_Backpressure ==
    /\ []((sem = maxConnectionCount /\ dispPc = "acquire" /\ ~panicked) =>
            /\ ~ENABLED Handoff
            /\ ~ENABLED Admit
            /\ accPc = "send" => ~ENABLED Accept)
    /\ [][(sem = maxConnectionCount /\ dispPc = "acquire") =>
            /\ dispPc' = dispPc
            /\ dispConn' = dispConn
            /\ accPc = "send" =>
                  /\ accepted' = accepted
                  /\ accConn' = accConn
                  /\ accPc' = accPc]_vars

\* Every slot is held by a Session in its relay, the Dispatcher waits for a
\* slot and the Acceptor waits at the handoff, with the listener open.
C13_Blocked ==
    /\ sem = maxConnectionCount
    /\ \A s \in Holders : sess[s].pc = "relaying"
    /\ dispPc = "acquire"
    /\ accPc = "send"
    /\ stopPc = "idle"

\* The number of operations op in the Session's history.
Count(s, op) == Cardinality({i \in DOMAIN Trace(s) : Trace(s)[i].op = op})

\* C14: on a failure of the greeting read, the connect-request read, the
\* parse, the lookup, the dial or the write of the success reply, the Session
\* goes to ERROR, ends on an error reply, has released its slot and is over,
\* with nothing tried twice and without having been handed to the relay.
C14_FailureEndsSession ==
    \A s \in Conns :
        (\E op \in {"readGreeting", "readConnect", "parse", "lookup", "dial",
                    "write"} : HasFailed(s, op))
        => /\ sess[s].pc = "done"
           /\ sess[s].state = "ERROR"
           /\ sess[s].rel = 1
           /\ ~Has(s, "relay")
           /\ Writes(s) # <<>>
           /\ IsErrorReply(Writes(s)[Len(Writes(s))])
           /\ \A op \in {"readGreeting", "readConnect", "parse", "lookup",
                         "dial"} : Count(s, op) <= 1

\* The destination port of the connect request the Session parsed.
ParsedPort(s) ==
    LET i == CHOOSE i \in DOMAIN Trace(s) : Trace(s)[i].op = "parse"
    IN  Trace(s)[i].port

\* C15: for each of the three supported address types, a Session that is
\* handed to the relay has its outbound IP, its outbound port and its
\* outbound connection set, and the success reply written.
C15_OutboundSet ==
    \A s \in Conns :
        sess[s].pc \in {"outboundHandler", "relaying"} =>
            /\ sess[s].outboundIP # <<>>
            /\ sess[s].outboundPort = ParsedPort(s)
            /\ sess[s].outboundConn = "open"
            /\ IsSuccessReply(Writes(s)[Len(Writes(s))])

\* The Session read a greeting whose version byte is not 5.
OtherVersion(s) ==
    /\ Trace(s) # <<>>
    /\ Trace(s)[1].op = "readGreeting"
    /\ Trace(s)[1].ok
    /\ Trace(s)[1].data[1] # 5

\* C16: a greeting whose first byte is not 0x05 does not end the Session:
\* it is INITIALIZING, the method-selection reply 0x05 0x00 is written and
\* the Session goes on to read the connect request.
C16_VersionTolerated ==
    \A s \in Conns :
        OtherVersion(s) =>
            /\ Len(Trace(s)) >= 2
            /\ Trace(s)[2].op = "write"
            /\ Trace(s)[2].data = <<5, 0>>
            /\ sess[s].pc = "handleConnectRequest"
                  => sess[s].state = "INITIALIZING" /\ Len(Trace(s)) = 2
            /\ sess[s].pc # "handleConnectRequest"
                  => Len(Trace(s)) >= 3 /\ Trace(s)[3].op = "readConnect"

\* A Session greeted with version 4 has reached the relay.
C16_Version4Relayed ==
    \E s \in Conns : OtherVersion(s) /\ sess[s].pc = "relaying"

\* The text "a.b.c.d:p" of the two IPv4 destinations the client asks for.
ExpectedTarget(addr, port) ==
    IF addr = <<127, 0, 0, 1>> /\ port = 8080
    THEN <<"1", "2", "7", ".", "0", ".", "0", ".", "1", ":", "8", "0", "8", "0">>
    ELSE IF addr = <<10, 20, 30, 40>> /\ port = 22
    THEN <<"1", "0", ".", "2", "0", ".", "3", "0", ".", "4", "0", ":", "2", "2">>
    ELSE <<>>

\* C17: for an IPv4 connect request (address bytes a, b, c, d, port p) whose
\* dial succeeds, the dial is to TCP "a.b.c.d:p" and the success reply is
\* 0x05 0x00 0x00 0x01 a b c d 0x00 0x50, whatever p is.
C17_IPv4DialAndReply ==
    \A s \in Conns : \A i \in DOMAIN Trace(s) :
        (/\ Trace(s)[i].op = "parse"
         /\ Trace(s)[i].ok
         /\ Trace(s)[i].data[1] = 1)
        => LET addr == Tail(Trace(s)[i].data)
               port == Trace(s)[i].port
           IN  /\ Len(addr) = 4
               /\ Len(Trace(s)) > i
               /\ Trace(s)[i + 1].op = "dial"
               /\ Trace(s)[i + 1].net = "tcp"
               /\ Trace(s)[i + 1].text = ExpectedTarget(addr, port)
               /\ Trace(s)[i + 1].text # <<>>
               /\ Trace(s)[i + 1].ok =>
                     /\ Len(Trace(s)) > i + 1
                     /\ Trace(s)[i + 2].op = "write"
                     /\ Trace(s)[i + 2].data =
                           <<5, 0, 0, 1, addr[1], addr[2], addr[3], addr[4],
                             0, 80>>

\* A Session has dialed 127.0.0.1:8080 and written its success reply.
C17_LocalhostDialed ==
    \E s \in Conns :
        /\ Len(Trace(s)) >= 6
        /\ Trace(s)[4].data = <<1, 127, 0, 0, 1>>
        /\ Trace(s)[4].port = 8080
        /\ Trace(s)[5].op = "dial" /\ Trace(s)[5].ok
        /\ Trace(s)[6].data = <<5, 0, 0, 1, 127, 0, 0, 1, 0, 80>>

\* C18: in every interleaving of Stop with the accept loop the Acceptor
\* never sends on the handoff queue after Stop has closed it: the process
\* never panics.
C18_NoSendOnClosed == ~panicked

\* The accepted connections that no Session has been started for.
Pending == {c \in 1..accepted : sess[c].pc = "unborn"}

\* The accepted connections that no Session has closed.
Unclosed == {c \in 1..accepted : sess[c].pc # "done"}

C20_EventuallyAdmitted ==
    \A c \in Conns : (accepted >= c) ~> (sess[c].pc # "unborn")

\* Every connection has been given a Session, more connections than slots.
C20_AllAdmitted ==
    /\ NConn > maxConnectionCount
    /\ maxConnectionCount >= 1
    /\ \A c \in Conns : sess[c].pc # "unborn"

====
